---- MODULE Spec2Model ----
(***************************************************************************)
(* Tools/synthetic_data.py (synthetic_data_generator), Tools/split_data.py  *)
(* (split_data) and Tools/draw_bounding_box.py (draw_boxes) as state       *)
(* machines, and generate_random_rotation_matrix of synthetic_data.py.     *)
(*                                                                         *)
(* Numbers that are floats in the source are kept exact: a pixel size is   *)
(* an integer, a scaling factor is a whole number of percent, and a        *)
(* normalised label field is the pair <<numerator, denominator>> of the    *)
(* division the code performs.                                             *)
(***************************************************************************)
EXTENDS Integers, Sequences, FiniteSets, TLC

VARIABLES
    pc,               \* position in synthetic_data_generator
    entries,          \* os.listdir(images_folder)
    i,                \* index of the current entry (0-based, as enumerate)
    bg,               \* <<bg_width, bg_height>> of the opened background
    j,                \* number of passes of the mesh loop that have run
    avg_width,        \* accumulator, then average, as in the source
    avg_height,
    temp,             \* the files of the temp folder
    matrix,           \* the candidate cell centres
    todo,             \* os.listdir(temp_folder) entries not yet visited
    x,                \* enumerate index of the compositing loop
    background_image, \* the objects pasted on the in-memory background
    outImage,         \* the objects in the persisted <i>.jpg (<<>>: none)
    labelFile,        \* the lines of <i>.txt
    err,              \* where the exception handled at line 319 was raised
    calls,            \* number of runs of the script started in this directory
    temp_exists,      \* the folder "temp" exists in the working directory
    monitor_threads,  \* number of live threads running monitor()
    spc,              \* position in split_data
    imagesDir,        \* the files of <root>/images
    labelsDir,        \* the files of <root>/labels
    train_ratio,      \* <<numerator, denominator>>
    val_ratio,
    image_files,      \* the filtered, shuffled list
    si,               \* enumerate index of the distribution loop
    train_folder,     \* [images, labels]: the files of <root>/train
    val_folder,
    test_folder,
    run,              \* number of calls of split_data made on this root
    seed,             \* <<s>>: the caller's random.seed(s) before each call;
                      \* <<>>: the caller does not seed
    dpc,              \* position in draw_boxes
    image_path,       \* the file at image_path: <<width, height>>, or <<>>
                      \* when cv2.imread cannot read it
    label_path,       \* the file at label_path: [exists, lines]
    writable,         \* cv2.imwrite can write to output_path
    image,            \* the image in memory: [size, rects, texts]
    lines,            \* file.readlines()
    li,               \* number of passes of the line loop that have run
    output_path,      \* the file at output_path: <<image>>, or <<>>: none
    printed,          \* the messages of lines 63 and 72, in order
    rpc,              \* position in generate_random_rotation_matrix
    angle_x,          \* [c, s, d]: the angle of cosine c/d and sine s/d
    angle_y,
    angle_z,
    final_rotation_matrix  \* [m, scale]: the 4 x 4 matrix m / scale

genVars == <<pc, entries, i, bg, j, avg_width, avg_height, temp, matrix, todo,
             x, background_image, outImage, labelFile, err,
             calls, temp_exists, monitor_threads>>

splitVars == <<spc, imagesDir, labelsDir, train_ratio, val_ratio, image_files, si,
               train_folder, val_folder, test_folder, run, seed>>

drawVars == <<dpc, image_path, label_path, writable, image, lines, li,
              output_path, printed>>

rotVars == <<rpc, angle_x, angle_y, angle_z, final_rotation_matrix>>

vars == <<genVars, splitVars, drawVars, rotVars>>

----------------------------------------------------------------------------
(* Bounds of the model *)

MaxFiles == 3

MaxRuns == 2

MaxEntries == 2

MaxCalls == 2

NumSeeds == 6

MaxLines == 2

----------------------------------------------------------------------------
(* Inputs *)

\* plotter.window_size: the renderer's off-screen window, 1024 x 768.
WindowWidth == 1024

WindowHeight == 768

\* lines 179-184: the files of stl_path ending in ".stl", two of them here;
\* lid is the test "lid" in your_stl_file of line 226.
stl_files ==
    << [stem |-> "sun_c", ext |-> ".stl", lid |-> FALSE],
       [stem |-> "lid_c", ext |-> ".stl", lid |-> TRUE] >>

\* np.random.uniform(0.22, 0.3) and np.random.uniform(0.05, 0.22), in percent.
LidScaling == {22, 30}

OtherScaling == {10, 22}

ScalingFactors(mesh) == IF mesh.lid THEN LidScaling ELSE OtherScaling

\* What the images folder can hold: image files of some size, anything else.
EntryKinds ==
    { [ext |-> ".jpg", size |-> <<130, 90>>],
      [ext |-> ".png", size |-> <<40, 30>>],
      [ext |-> "",     size |-> <<0, 0>>] }

IsImageFile(e) == e.ext = ".png" \/ e.ext = ".jpg"

----------------------------------------------------------------------------
(* Pure helpers *)

\* int(window_size * scaling_factor) for both axes
ScaledSize(sf) == << (WindowWidth * sf) \div 100, (WindowHeight * sf) \div 100 >>

\* the name with the mesh loop counting from 1
ScreenshotNameOneBased(k) == [stem |-> ToString(k + 1), ext |-> ".png"]

\* f'{temp_folder}/{j}.png' for the 0-based mesh index k
ScreenshotName(k) == [stem |-> ToString(k), ext |-> ".png"]

\* file_name.replace(".png", "") on a name whose stem holds no ".png"
ClassId(name) == IF name.ext = ".png" THEN name.stem ELSE name.stem \o name.ext

\* int(avg / (j + 1) / 2): n is j + 1, the number of entries of stl_files
Average(sum, n) == (sum \div n) \div 2

\* the list with the two loops of lines 254 and 256 exchanged
BuildMatrixColumnMajor(bw, bh, aw, ah) ==
    LET grid_horisontal == bw \div aw
        grid_vertical   == bh \div ah
    IN  [k \in 1..(grid_horisontal * grid_vertical) |->
            << aw \div 2 + ((k - 1) \div grid_vertical) * aw,
               ah \div 2 + ((k - 1) % grid_vertical) * ah >>]

\* lines 250-259: the flat list of cell centres, rows outermost
BuildMatrix(bw, bh, aw, ah) ==
    LET grid_horisontal == bw \div aw
        grid_vertical   == bh \div ah
    IN  [k \in 1..(grid_horisontal * grid_vertical) |->
            << aw \div 2 + ((k - 1) % grid_horisontal) * aw,
               ah \div 2 + ((k - 1) \div grid_horisontal) * ah >>]

\* del matrix[random_index]
Remove(s, k) == [n \in 1..(Len(s) - 1) |-> IF n < k THEN s[n] ELSE s[n + 1]]

\* int(a / 2) for a possibly negative half-integer a = d / 2
TruncHalf(d) == IF d >= 0 THEN d \div 2 ELSE -((-d) \div 2)

\* lines 139-146: the line create_label_file appends
LabelLine(class_id, x_center, y_center, width2, height2, bg_width, bg_height) ==
    [class_id |-> class_id,
     x_center |-> <<x_center, bg_width>>,
     y_center |-> <<y_center, bg_height>>,
     width    |-> <<width2, 2 * bg_width>>,
     height   |-> <<height2, 2 * bg_height>>]

Names(files) == {f.name : f \in files}

----------------------------------------------------------------------------
(* synthetic_data_generator *)

GenInit ==
    /\ pc = "start"
    /\ calls = 1
    /\ temp_exists = FALSE
    /\ monitor_threads = 0
    /\ entries \in UNION {[1..n -> EntryKinds] : n \in 1..MaxEntries}
    /\ i = 0
    /\ bg = <<0, 0>>
    /\ j = 0
    /\ avg_width = 0
    /\ avg_height = 0
    /\ temp = {}
    /\ matrix = <<>>
    /\ todo = {}
    /\ x = 0
    /\ background_image = <<>>
    /\ outImage = <<>>
    /\ labelFile = <<>>
    /\ err = "none"

\* lines 153-187: the call up to the loop; os.makedirs(temp_folder) raises
\* FileExistsError when the folder exists
Setup ==
    /\ UNCHANGED <<splitVars, drawVars, rotVars>>
    /\ pc = "start"
    /\ pc' = IF temp_exists THEN "aborted" ELSE "loop"
    /\ temp_exists' = TRUE
    /\ UNCHANGED <<entries, i, bg, j, avg_width, avg_height, temp, matrix, todo,
                   x, background_image, outImage, labelFile, err,
                   calls, monitor_threads>>

\* line 330: the script is run once more with the same arguments, in the same
\* working directory; the threads of the run before ended with its process
Rerun ==
    /\ UNCHANGED <<splitVars, drawVars, rotVars>>
    /\ pc \in {"done", "crashed", "aborted"}
    /\ calls < MaxCalls
    /\ calls' = calls + 1
    /\ pc' = "start"
    /\ i' = 0
    /\ monitor_threads' = 0
    /\ UNCHANGED <<entries, bg, j, avg_width, avg_height, temp, matrix, todo,
                   x, background_image, outImage, labelFile, err, temp_exists>>

\* line 189: the for loop has run out of entries
LoopEnd ==
    /\ UNCHANGED <<splitVars, drawVars, rotVars>>
    /\ UNCHANGED <<calls, temp_exists, monitor_threads>>
    /\ pc = "loop"
    /\ i = Len(entries)
    /\ pc' = "done"
    /\ UNCHANGED <<entries, i, bg, j, avg_width, avg_height, temp, matrix, todo,
                   x, background_image, outImage, labelFile, err>>

\* lines 189-202: the next entry
ImageStart ==
    /\ UNCHANGED <<splitVars, drawVars, rotVars>>
    /\ UNCHANGED <<calls, temp_exists>>
    /\ pc = "loop"
    /\ i < Len(entries)
    \* line 192: start_memory_monitoring() starts one more daemon thread
    /\ monitor_threads' = monitor_threads + 1
    /\ \/ /\ ~IsImageFile(entries[i + 1])
          /\ pc' = "csv"
          /\ UNCHANGED <<bg, err>>
       \/ /\ IsImageFile(entries[i + 1])
          /\ \/ /\ bg' = entries[i + 1].size
                /\ pc' = "render"
                /\ UNCHANGED err
             \/ \* Image.open raises
                /\ err' = "Image.open"
                /\ pc' = "except"
                /\ UNCHANGED bg
    /\ UNCHANGED <<entries, i, j, avg_width, avg_height, temp, matrix, todo, x,
                   background_image, outImage, labelFile>>

\* lines 206-244: one pass of the mesh loop
RenderMesh ==
    /\ UNCHANGED <<splitVars, drawVars, rotVars>>
    /\ UNCHANGED <<calls, temp_exists, monitor_threads>>
    /\ pc = "render"
    /\ j < Len(stl_files)
    /\ j' = j + 1
    /\ \/ \* pv.read, transform or the plotter raise
          UNCHANGED <<avg_width, avg_height, temp>>
       \/ \E sf \in ScalingFactors(stl_files[j + 1]) :
            LET size == ScaledSize(sf)
                shot == [name |-> ScreenshotName(j), w |-> size[1], h |-> size[2],
                         mesh |-> stl_files[j + 1].stem, img |-> i]
            IN  /\ avg_width' = avg_width + size[1]
                /\ avg_height' = avg_height + size[2]
                /\ \/ temp' = {f \in temp : f.name # shot.name} \cup {shot}
                   \/ \* plotter.screenshot raises
                      UNCHANGED temp
    /\ UNCHANGED <<pc, entries, i, bg, matrix, todo, x, background_image,
                   outImage, labelFile, err>>

\* lines 245-261 and the listing of line 264
BuildGrid ==
    /\ UNCHANGED <<splitVars, drawVars, rotVars>>
    /\ UNCHANGED <<calls, temp_exists, monitor_threads>>
    /\ pc = "render"
    /\ j = Len(stl_files)
    /\ IF Len(stl_files) = 0
       THEN /\ err' = "NameError"
            /\ pc' = "except"
            /\ UNCHANGED <<avg_width, avg_height, matrix, todo>>
       ELSE LET aw == Average(avg_width, Len(stl_files))
                ah == Average(avg_height, Len(stl_files))
            IN  /\ avg_width' = aw
                /\ avg_height' = ah
                /\ IF aw = 0 \/ ah = 0
                   THEN /\ err' = "ZeroDivisionError"
                        /\ pc' = "except"
                        /\ UNCHANGED <<matrix, todo>>
                   ELSE /\ matrix' = BuildMatrix(bg[1], bg[2], aw, ah)
                        /\ todo' = Names(temp)
                        /\ pc' = IF temp = {} THEN "csv" ELSE "place"
                        /\ UNCHANGED err
    /\ UNCHANGED <<entries, i, bg, j, temp, x, background_image, outImage, labelFile>>

\* lines 303-308: the handler of one raster's exception; its os.remove may raise
Handler(f) ==
    \/ /\ temp' = temp \ {f}
       /\ pc' = IF todo \ {f.name} = {} THEN "csv" ELSE "place"
       /\ UNCHANGED err
    \/ /\ err' = "os.remove"
       /\ pc' = "except"
       /\ UNCHANGED temp

\* lines 264-309: one pass of the compositing loop
PlaceRaster ==
    /\ UNCHANGED <<splitVars, drawVars, rotVars>>
    /\ UNCHANGED <<calls, temp_exists, monitor_threads>>
    /\ pc = "place"
    /\ \E f \in temp :
        /\ f.name \in todo
        /\ todo' = todo \ {f.name}
        /\ x' = x + 1
        /\ \/ \* Image.open raises
              /\ Handler(f)
              /\ UNCHANGED <<matrix, background_image, outImage, labelFile>>
           \/ \* np.random.randint(0, 0) raises
              /\ Len(matrix) = 0
              /\ Handler(f)
              /\ UNCHANGED <<matrix, background_image, outImage, labelFile>>
           \/ \E random_index \in 1..Len(matrix) :
                LET random_position == matrix[random_index]
                    paste_position ==
                        << TruncHalf(2 * random_position[1] - f.w),
                           TruncHalf(2 * random_position[2] - f.h) >>
                    pasted == Append(background_image,
                                     [cell |-> random_position, at |-> paste_position,
                                      raster |-> f.name, mesh |-> f.mesh,
                                      rendered |-> f.img])
                    line == LabelLine(ClassId(f.name), random_position[1],
                                      random_position[2], f.w, f.w, bg[1], bg[2])
                IN  /\ background_image' = pasted
                    /\ \/ \* background_image.save raises
                          /\ Handler(f)
                          /\ UNCHANGED <<matrix, outImage, labelFile>>
                       \/ /\ outImage' = pasted
                          /\ \/ \* create_label_file raises
                                /\ Handler(f)
                                /\ UNCHANGED <<matrix, labelFile>>
                             \/ /\ labelFile' = Append(labelFile, line)
                                /\ \/ \* os.remove of line 301 raises
                                      /\ Handler(f)
                                      /\ UNCHANGED matrix
                                   \/ /\ temp' = temp \ {f}
                                      /\ matrix' = Remove(matrix, random_index)
                                      /\ pc' = IF todo' = {} THEN "csv" ELSE "place"
                                      /\ UNCHANGED err
    /\ UNCHANGED <<entries, i, bg, j, avg_width, avg_height>>

\* The end of one pass of the loop of line 189, going on at position p with
\* entry k.  Nothing writes the files <i>.jpg and <i>.txt again, and bg,
\* avg_width, avg_height, j and matrix are assigned by the next pass before it
\* reads them: what this pass left in them is dropped here.
Leave(p, k) ==
    /\ pc' = p
    /\ i' = k
    /\ err' = "none"
    /\ bg' = <<0, 0>>
    /\ j' = 0
    /\ avg_width' = 0
    /\ avg_height' = 0
    /\ matrix' = <<>>
    /\ todo' = {}
    /\ x' = 0
    /\ background_image' = <<>>
    /\ outImage' = <<>>
    /\ labelFile' = <<>>
    /\ UNCHANGED <<entries, temp>>

\* lines 319-321: the handler of one entry's exception
ImageExcept ==
    /\ UNCHANGED <<splitVars, drawVars, rotVars>>
    /\ UNCHANGED <<calls, temp_exists, monitor_threads>>
    /\ pc = "except"
    /\ Leave("loop", i + 1)

\* lines 323-328: the timing record and the two CSV files, outside the try
WriteCsv ==
    /\ UNCHANGED <<splitVars, drawVars, rotVars>>
    /\ UNCHANGED <<calls, temp_exists, monitor_threads>>
    /\ pc = "csv"
    /\ \/ Leave("loop", i + 1)
       \/ \* write_to_csv raises: nothing catches it, the call ends
          Leave("crashed", i)

GenNext ==
    \/ Setup
    \/ Rerun
    \/ LoopEnd
    \/ ImageStart
    \/ RenderMesh
    \/ BuildGrid
    \/ PlaceRaster
    \/ ImageExcept
    \/ WriteCsv

----------------------------------------------------------------------------
(* split_data *)

Stems == {ToString(n) : n \in 1..MaxFiles}

\* train_ratio and val_ratio as exact fractions
Ratios == { <<0, 1>>, <<1, 2>>, <<7, 10>>, <<1, 1>> }

EmptyFolder == [images |-> {}, labels |-> {}]

\* file.replace(".jpg", ".txt") on a name whose stem holds no ".jpg"
LabelName(file) ==
    IF file.ext = ".jpg" THEN [stem |-> file.stem, ext |-> ".txt"] ELSE file

\* line 129: the images that have their label file
Filter(imgs, lbls) == {file \in imgs : LabelName(file) \in lbls}

\* random.shuffle: any order of the list
Shuffles(S) ==
    {p \in [1..Cardinality(S) -> S] :
        \A a, b \in 1..Cardinality(S) : a # b => p[a] # p[b]}

\* the values the caller may pass to random.seed
Seeds == 0..(NumSeeds - 1)

\* os.listdir on a folder that does not change between two calls: the same
\* order at every call, here the order of the stems
ListDir(S) ==
    LET present == SelectSeq([n \in 1..MaxFiles |-> ToString(n)],
                             LAMBDA st : \E file \in S : file.stem = st)
    IN  [k \in 1..Len(present) |-> CHOOSE file \in S : file.stem = present[k]]

\* x[a], x[b] = x[b], x[a]
Swap(l, a, b) ==
    [k \in 1..Len(l) |-> IF k = a THEN l[b] ELSE IF k = b THEN l[a] ELSE l[k]]

RECURSIVE FisherYates(_, _, _)
\* random.shuffle from a known generator state: for the indices n-1 down to
\* 1, swap with the index randbelow draws, the draws being the digits of state
FisherYates(state, l, n) ==
    IF n <= 1 THEN l
    ELSE FisherYates(state \div n, Swap(l, n, (state % n) + 1), n - 1)

\* the order when the generator is seeded once and runs on from call to call
ShuffleUnseededAgain(s, l) == FisherYates(s + run, l, Len(l))

\* line 132 after random.seed(s): the order is a function of s and the list
Shuffle(s, l) == FisherYates(s, l, Len(l))

\* int(ratio * total_files)
SplitCount(ratio, total_files) == (ratio[1] * total_files) \div ratio[2]

\* the choice with <= for < in the first test
DestinationInclusive(k, train_split, val_split) ==
    IF k <= train_split THEN "train"
    ELSE IF k < train_split + val_split THEN "valid"
    ELSE "test"

\* lines 144-149, for the 0-based index k: "train", "valid" or "test"
Destination(k, train_split, val_split) ==
    IF k < train_split THEN "train"
    ELSE IF k < train_split + val_split THEN "valid"
    ELSE "test"

\* lines 151-155: both copies
CopyInto(folder, file) ==
    [images |-> folder.images \cup {file},
     labels |-> folder.labels \cup {LabelName(file)}]

SplitInit ==
    /\ spc = "idle"
    /\ imagesDir \in
         { {[stem |-> st, ext |-> e[st]] : st \in {t \in Stems : e[t] # ""}} :
             e \in [Stems -> {"", ".jpg", ".png"}] }
    /\ labelsDir \in SUBSET {[stem |-> st, ext |-> ".txt"] : st \in Stems}
    /\ train_ratio \in Ratios
    /\ val_ratio \in Ratios
    /\ image_files = <<>>
    /\ si = 0
    /\ train_folder = EmptyFolder
    /\ val_folder = EmptyFolder
    /\ test_folder = EmptyFolder
    /\ run = 0
    /\ seed \in {<<s>> : s \in Seeds} \cup {<<>>}

\* lines 109-137: a call of split_data up to the distribution loop
SplitStart ==
    /\ UNCHANGED <<genVars, drawVars, rotVars>>
    /\ spc = "idle"
    /\ run < MaxRuns
    /\ image_files' \in
         IF seed = <<>> THEN Shuffles(Filter(imagesDir, labelsDir))
         ELSE {Shuffle(seed[1], ListDir(Filter(imagesDir, labelsDir)))}
    /\ si' = 0
    /\ run' = run + 1
    /\ spc' = "copy"
    /\ UNCHANGED <<imagesDir, labelsDir, train_ratio, val_ratio,
                   train_folder, val_folder, test_folder, seed>>

\* lines 140-155: one pass of the distribution loop
CopyPair ==
    /\ UNCHANGED <<genVars, drawVars, rotVars>>
    /\ spc = "copy"
    /\ si < Len(image_files)
    /\ LET file == image_files[si + 1]
           total_files == Len(image_files)
           dest == Destination(si, SplitCount(train_ratio, total_files),
                               SplitCount(val_ratio, total_files))
       IN  /\ train_folder' =
                IF dest = "train" THEN CopyInto(train_folder, file) ELSE train_folder
           /\ val_folder' =
                IF dest = "valid" THEN CopyInto(val_folder, file) ELSE val_folder
           /\ test_folder' =
                IF dest = "test" THEN CopyInto(test_folder, file) ELSE test_folder
    /\ si' = si + 1
    /\ UNCHANGED <<spc, imagesDir, labelsDir, train_ratio, val_ratio, image_files,
                   run, seed>>

\* lines 157-160: the loop has run out; split_data returns
SplitReturn ==
    /\ UNCHANGED <<genVars, drawVars, rotVars>>
    /\ spc = "copy"
    /\ si = Len(image_files)
    /\ spc' = "idle"
    /\ UNCHANGED <<imagesDir, labelsDir, train_ratio, val_ratio, image_files, si,
                   train_folder, val_folder, test_folder, run, seed>>

SplitNext ==
    \/ SplitStart
    \/ CopyPair
    \/ SplitReturn

----------------------------------------------------------------------------
(* draw_boxes *)

\* a field of a label line: a number num/den, "nan", or text float() rejects
Num(n, d) == [kind |-> "num", num |-> n, den |-> d]

NaN == [kind |-> "nan", num |-> 0, den |-> 1]

Text == [kind |-> "text", num |-> 0, den |-> 1]

\* line.strip().split() of the lines a label file can hold
LabelLines ==
    { <<Num(0, 1), Num(1, 2), Num(1, 2), Num(1, 5), Num(1, 5)>>,   \* 0 0.5 0.5 0.2 0.2
      <<Num(1, 1), Num(1, 4), Num(3, 4), Num(3, 20), Num(3, 10)>>, \* 1 0.25 0.75 0.15 0.3
      <<Num(0, 1), Num(1, 2), Num(1, 2), Num(1, 5)>>,              \* 0 0.5 0.5 0.2
      <<Num(0, 1), Text, Num(1, 2), Num(1, 5), Num(1, 5)>>,        \* 0 x 0.5 0.2 0.2
      <<NaN, Num(1, 2), Num(1, 2), Num(1, 5), Num(1, 5)>> }        \* nan 0.5 0.5 0.2 0.2

\* <<width, height>> of the images cv2.imread can return
ImageSizes == { <<100, 100>>, <<64, 48>> }

\* line 44 raises: not five fields, or a field float() rejects
UnpackRaises(line) ==
    Len(line) # 5 \/ \E k \in 1..Len(line) : line[k].kind = "text"

\* int(v * size) raises: v is nan
PixelRaises(v) == v.kind = "nan"

\* int(v * size) for a number v >= 0
Pixel(v, size) == (v.num * size) \div v.den

\* the corners with the whole width and height on each side of the centre
RectangleFullExtent(x_pixel, y_pixel, width_pixel, height_pixel) ==
    [p1 |-> <<x_pixel - width_pixel, y_pixel - height_pixel>>,
     p2 |-> <<x_pixel + width_pixel, y_pixel + height_pixel>>]

\* lines 53-54: the two corners handed to cv2.rectangle
Rectangle(x_pixel, y_pixel, width_pixel, height_pixel) ==
    [p1 |-> <<x_pixel - width_pixel \div 2, y_pixel - height_pixel \div 2>>,
     p2 |-> <<x_pixel + width_pixel \div 2, y_pixel + height_pixel \div 2>>]

\* no image in memory: before cv2.imread, and the None it returns
NoImage == [size |-> <<>>, rects |-> <<>>, texts |-> <<>>]

\* every exception ends the call
HandledByOuter(where) == "done"

\* where control goes after an exception: line 64 continues the line loop,
\* line 72 ends the call
Handled(where) == IF where = "line" THEN "loop" ELSE "done"

DrawInit ==
    /\ dpc = "read"
    /\ image_path \in ImageSizes \cup {<<>>}
    /\ label_path \in
         {[exists |-> FALSE, lines |-> <<>>]} \cup
         {[exists |-> TRUE, lines |-> l] :
             l \in UNION {[1..n -> LabelLines] : n \in 0..MaxLines}}
    /\ writable \in BOOLEAN
    /\ image = NoImage
    /\ lines = <<>>
    /\ li = 0
    /\ output_path = <<>>
    /\ printed = <<>>

\* lines 32-39: cv2.imread, image.shape, open and readlines
ReadFiles ==
    /\ UNCHANGED <<genVars, splitVars, rotVars>>
    /\ dpc = "read"
    /\ IF image_path = <<>>
       THEN \* imread returned None: image.shape raises
            /\ image' = NoImage
            /\ dpc' = Handled("files")
            /\ printed' = Append(printed, "Error processing files")
            /\ UNCHANGED lines
       ELSE IF ~label_path.exists
       THEN \* open raises
            /\ image' = [size |-> image_path, rects |-> <<>>, texts |-> <<>>]
            /\ dpc' = Handled("files")
            /\ printed' = Append(printed, "Error processing files")
            /\ UNCHANGED lines
       ELSE /\ image' = [size |-> image_path, rects |-> <<>>, texts |-> <<>>]
            /\ lines' = label_path.lines
            /\ dpc' = "loop"
            /\ UNCHANGED printed
    /\ UNCHANGED <<image_path, label_path, writable, li, output_path>>

\* lines 41-64: one pass of the line loop
DrawLine ==
    /\ UNCHANGED <<genVars, splitVars, rotVars>>
    /\ dpc = "loop"
    /\ li < Len(lines)
    /\ LET line == lines[li + 1]
       IN  IF UnpackRaises(line)
              \/ \E k \in 2..5 : PixelRaises(line[k])
           THEN /\ dpc' = Handled("line")
                /\ printed' = Append(printed, "Error processing the line")
                /\ UNCHANGED image
           ELSE LET box == Rectangle(Pixel(line[2], image.size[1]),
                                     Pixel(line[3], image.size[2]),
                                     Pixel(line[4], image.size[1]),
                                     Pixel(line[5], image.size[2]))
                    drawn == [image EXCEPT
                                !.rects = Append(@, [line |-> li + 1,
                                                     p1 |-> box.p1, p2 |-> box.p2])]
                IN  IF line[1].kind = "nan"
                    THEN \* int(class_id) raises, the rectangle is drawn
                         /\ image' = drawn
                         /\ dpc' = Handled("line")
                         /\ printed' = Append(printed, "Error processing the line")
                    ELSE /\ image' =
                              [drawn EXCEPT
                                 !.texts = Append(@,
                                     [line |-> li + 1,
                                      text |-> ToString(line[1].num \div line[1].den),
                                      org |-> << Pixel(line[2], image.size[1]),
                                                 Pixel(line[3], image.size[2]) - 10 >>])]
                         /\ UNCHANGED <<dpc, printed>>
    /\ li' = li + 1
    /\ UNCHANGED <<image_path, label_path, writable, lines, output_path>>

\* lines 66-69: the loop has run out; cv2.imwrite
WriteOutput ==
    /\ UNCHANGED <<genVars, splitVars, rotVars>>
    /\ dpc = "loop"
    /\ li = Len(lines)
    /\ output_path' = IF writable THEN <<image>> ELSE output_path
    /\ dpc' = "done"
    /\ UNCHANGED <<image_path, label_path, writable, image, lines, li, printed>>

DrawNext ==
    \/ ReadFiles
    \/ DrawLine
    \/ WriteOutput

\* draw_boxes is not called
DrawOff ==
    /\ dpc = "off"
    /\ image_path = <<>>
    /\ label_path = [exists |-> FALSE, lines |-> <<>>]
    /\ writable = FALSE
    /\ image = NoImage
    /\ lines = <<>>
    /\ li = 0
    /\ output_path = <<>>
    /\ printed = <<>>

----------------------------------------------------------------------------
(* generate_random_rotation_matrix *)

\* An angle is kept as the point (c/d, s/d) of the unit circle that np.cos and
\* np.sin return for it, c*c + s*s = d*d; a matrix is kept as integers over a
\* scale, the product of the d of its angles.
Angle(c, s, d) == [c |-> c, s |-> s, d |-> d]

\* np.random.uniform(-i, i) with i = np.pi / 4: angles whose cosine is at least
\* the size of their sine
QuarterAngles ==
    { Angle(1, 0, 1), Angle(4, 3, 5), Angle(4, -3, 5),
      Angle(12, 5, 13), Angle(12, -5, 13) }

\* np.random.uniform(0, 2 * np.pi): angles of the whole circle
FullAngles ==
    { Angle(1, 0, 1), Angle(4, 3, 5), Angle(3, 4, 5), Angle(0, 1, 1),
      Angle(-3, 4, 5), Angle(-4, 3, 5), Angle(-1, 0, 1), Angle(-4, -3, 5),
      Angle(-3, -4, 5), Angle(0, -1, 1), Angle(3, -4, 5), Angle(4, -3, 5) }

\* lines 92-97
rotation_matrix_x(a) ==
    << << a.d, 0,   0,    0 >>,
       << 0,   a.c, -a.s, 0 >>,
       << 0,   a.s, a.c,  0 >>,
       << 0,   0,   0,    a.d >> >>

\* the matrix with the sine of the same sign in both places
rotation_matrix_y_same_sign(a) ==
    << << a.c, 0,   a.s, 0 >>,
       << 0,   a.d, 0,   0 >>,
       << a.s, 0,   a.c, 0 >>,
       << 0,   0,   0,   a.d >> >>

\* lines 100-105
rotation_matrix_y(a) ==
    << << a.c,  0,   a.s, 0 >>,
       << 0,    a.d, 0,   0 >>,
       << -a.s, 0,   a.c, 0 >>,
       << 0,    0,   0,   a.d >> >>

\* lines 108-113
rotation_matrix_z(a) ==
    << << a.c, -a.s, 0,   0 >>,
       << a.s, a.c,  0,   0 >>,
       << 0,   0,    a.d, 0 >>,
       << 0,   0,    0,   a.d >> >>

\* np.dot of two 4 x 4 matrices
Dot(A, B) ==
    [r \in 1..4 |-> [k \in 1..4 |->
        A[r][1] * B[1][k] + A[r][2] * B[2][k] + A[r][3] * B[3][k] + A[r][4] * B[4][k]]]

RotInit ==
    /\ rpc = "start"
    /\ angle_x = Angle(1, 0, 1)
    /\ angle_y = Angle(1, 0, 1)
    /\ angle_z = Angle(1, 0, 1)
    /\ final_rotation_matrix = [m |-> <<>>, scale |-> 1]

\* lines 86-119: the three draws, the three matrices and their product
GenerateRandomRotationMatrix ==
    /\ UNCHANGED <<genVars, splitVars, drawVars>>
    /\ rpc = "start"
    /\ angle_x' \in QuarterAngles
    /\ angle_y' \in QuarterAngles
    /\ angle_z' \in FullAngles
    /\ final_rotation_matrix' =
         [m |-> Dot(rotation_matrix_z(angle_z'),
                    Dot(rotation_matrix_y(angle_y'), rotation_matrix_x(angle_x'))),
          scale |-> angle_z'.d * angle_y'.d * angle_x'.d]
    /\ rpc' = "done"

RotNext == GenerateRandomRotationMatrix

\* generate_random_rotation_matrix is not called
RotOff ==
    /\ rpc = "off"
    /\ angle_x = Angle(1, 0, 1)
    /\ angle_y = Angle(1, 0, 1)
    /\ angle_z = Angle(1, 0, 1)
    /\ final_rotation_matrix = [m |-> <<>>, scale |-> 1]

----------------------------------------------------------------------------
(* The programs, each run on its own *)

\* split_data is not called
SplitOff ==
    /\ spc = "off"
    /\ imagesDir = {}
    /\ labelsDir = {}
    /\ train_ratio = <<0, 1>>
    /\ val_ratio = <<0, 1>>
    /\ image_files = <<>>
    /\ si = 0
    /\ train_folder = EmptyFolder
    /\ val_folder = EmptyFolder
    /\ test_folder = EmptyFolder
    /\ run = 0
    /\ seed = <<>>

\* synthetic_data_generator is not called
GenOff ==
    /\ pc = "off"
    /\ entries = <<>>
    /\ i = 0
    /\ bg = <<0, 0>>
    /\ j = 0
    /\ avg_width = 0
    /\ avg_height = 0
    /\ temp = {}
    /\ matrix = <<>>
    /\ todo = {}
    /\ x = 0
    /\ background_image = <<>>
    /\ outImage = <<>>
    /\ labelFile = <<>>
    /\ err = "none"
    /\ calls = 0
    /\ temp_exists = FALSE
    /\ monitor_threads = 0

Init == GenInit /\ SplitOff /\ DrawOff /\ RotOff

Next == GenNext

Spec == Init /\ [][Next]_vars

SplitSpecInit == GenOff /\ SplitInit /\ DrawOff /\ RotOff

SplitSpec == SplitSpecInit /\ [][SplitNext]_vars

DrawSpecInit == GenOff /\ SplitOff /\ DrawInit /\ RotOff

DrawSpec == DrawSpecInit /\ [][DrawNext]_vars

RotSpecInit == GenOff /\ SplitOff /\ DrawOff /\ RotInit

RotSpec == RotSpecInit /\ [][RotNext]_vars

----------------------------------------------------------------------------
(* Properties of synthetic_data_generator, checked under Spec *)

\* the pair <<numerator, denominator>> is a number of [0, 1]
InUnit(q) == 0 <= q[1] /\ q[1] <= q[2]

RECURSIVE SumOf(_, _)
\* the sum of field(f) over the files f of S
SumOf(S, width) ==
    IF S = {} THEN 0
    ELSE LET f == CHOOSE g \in S : TRUE
         IN  (IF width THEN f.w ELSE f.h) + SumOf(S \ {f}, width)

\* the rasters of the temp folder that were rendered for the current entry
Fresh == {f \in temp : f.img = i}

\* the grid of the current entry has just been built, no raster visited yet
GridBuilt == pc = "place" /\ x = 0

\* C1: within one background image no cell of the grid receives more than one
\* pasted object, whatever placements failed part-way.
C1_NoCellTwice ==
    \A p, q \in 1..Len(background_image) :
        p # q => background_image[p].cell # background_image[q].cell

\* C2: the four numeric fields of every label line lie in [0, 1].
C2_LabelFieldsInUnit ==
    \A n \in 1..Len(labelFile) :
        /\ InUnit(labelFile[n].x_center)
        /\ InUnit(labelFile[n].y_center)
        /\ InUnit(labelFile[n].width)
        /\ InUnit(labelFile[n].height)

\* C4: when the compositing loop of an image has ended, its label file holds as
\* many lines as the persisted output image holds pasted objects.
C4_OneLinePerObject ==
    pc = "csv" => Len(labelFile) = Len(outImage)

\* C5: an exception raised while placing a raster never leaves the compositing
\* loop of that image, and every raster the loop has visited is deleted from
\* the temp folder.
C5_PlacementFailureContained ==
    /\ err # "os.remove"
    /\ pc = "place" => Names(temp) \subseteq todo

\* C6: the class identifier of a label line is the base name, extension
\* stripped, of the mesh file its raster was rendered from.
C6_ClassIsMeshBaseName ==
    [][\A f \in temp :
          (f.name \in todo /\ f.name \notin todo'
             /\ Len(labelFile') = Len(labelFile) + 1)
          => labelFile'[Len(labelFile')].class_id = f.mesh]_vars

\* C6 as amended: the class identifier of a label line is the decimal 0-based
\* position, in stl_files, of the mesh its raster was rendered from.
C6_ClassIsMeshIndex ==
    [][\A f \in temp :
          (f.name \in todo /\ f.name \notin todo'
             /\ Len(labelFile') = Len(labelFile) + 1)
          => \E k \in 0..(Len(stl_files) - 1) :
                /\ stl_files[k + 1].stem = f.mesh
                /\ labelFile'[Len(labelFile')].class_id = ToString(k)]_vars

\* a label line of the second mesh has been written
C6_Witness ==
    \E n \in 1..Len(labelFile) : labelFile[n].class_id = "1"

\* C7: the averages the grid is built from are those of the meshes that
\* rendered, halved: their sizes summed and divided by their number.
C7_AverageOverRendered ==
    (GridBuilt /\ Fresh # {}) =>
        /\ avg_width = (SumOf(Fresh, TRUE) \div Cardinality(Fresh)) \div 2
        /\ avg_height = (SumOf(Fresh, FALSE) \div Cardinality(Fresh)) \div 2

\* C8: the grid is the row-major list of grid_horizontal * grid_vertical
\* pairwise distinct cell centres, each inside the background.
C8_GridRowMajor ==
    GridBuilt =>
        LET gh == bg[1] \div avg_width
            gv == bg[2] \div avg_height
        IN  /\ Len(matrix) = gh * gv
            /\ \A row \in 0..(gv - 1) : \A col \in 0..(gh - 1) :
                  matrix[row * gh + col + 1] =
                      << avg_width \div 2 + col * avg_width,
                         avg_height \div 2 + row * avg_height >>
            /\ \A a, b \in 1..Len(matrix) : a # b => matrix[a] # matrix[b]
            /\ \A a \in 1..Len(matrix) :
                  /\ 0 <= matrix[a][1] /\ matrix[a][1] <= bg[1]
                  /\ 0 <= matrix[a][2] /\ matrix[a][2] <= bg[2]

\* a grid of several rows and a different number of columns has been built
C8_Witness ==
    /\ GridBuilt
    /\ bg[1] \div avg_width >= 2
    /\ bg[2] \div avg_height >= 2
    /\ bg[1] \div avg_width # bg[2] \div avg_height
    /\ Len(matrix) >= 4

\* C9: every raster composited onto the current background image was rendered
\* while that image was processed.
C9_NoStaleRaster ==
    \A p \in 1..Len(background_image) : background_image[p].rendered = i

\* C10: the run does not end before every .png/.jpg entry has been attempted.
C10_EveryImageAttempted ==
    pc \in {"done", "crashed"} =>
        \A k \in 1..Len(entries) : IsImageFile(entries[k]) => k - 1 <= i

\* C15: a second run of synthetic_data_generator, started with the same
\* arguments after the first has ended, gets past its temp-directory setup
\* into the loop over the background images.
C15_SecondRunStarts ==
    calls >= 2 => pc # "aborted"

\* C16: during one run at most one thread sampling the memory is alive.
C16_OneSampler ==
    monitor_threads <= 1

----------------------------------------------------------------------------
(* Properties of split_data, checked under SplitSpec *)

\* the images of the images folder that have a label of the same base name
Pairs == {file \in imagesDir : [stem |-> file.stem, ext |-> ".txt"] \in labelsDir}

Floor(ratio, n) == (ratio[1] * n) \div ratio[2]

\* the pairs of a folder: images with their label beside them
PairsIn(folder) ==
    {file \in folder.images : [stem |-> file.stem, ext |-> ".txt"] \in folder.labels}

\* a call of split_data has returned
Returned == spc = "idle" /\ run >= 1

\* every pair is in exactly one of the three folders, image and label together
Partitioned(S) ==
    /\ \A file \in S :
          Cardinality({d \in {"train", "valid", "test"} :
              file \in (CASE d = "train" -> PairsIn(train_folder)
                          [] d = "valid" -> PairsIn(val_folder)
                          [] OTHER -> PairsIn(test_folder))}) = 1
    /\ \A folder \in {train_folder, val_folder, test_folder} :
          /\ folder.images \subseteq S
          /\ folder.labels = {[stem |-> file.stem, ext |-> ".txt"] : file \in folder.images}

\* the three folders hold the counts the ratios ask for
Counted(n) ==
    /\ Cardinality(PairsIn(train_folder)) = Floor(train_ratio, n)
    /\ Cardinality(PairsIn(val_folder)) = Floor(val_ratio, n)
    /\ Cardinality(PairsIn(test_folder)) =
          n - Floor(train_ratio, n) - Floor(val_ratio, n)

\* C3: after split_data the folders hold floor(N * train_ratio), floor(N *
\* val_ratio) and the remaining pairs, every pair in exactly one folder.
C3_SplitCounts ==
    Returned => Counted(Cardinality(Pairs)) /\ Partitioned(Pairs)

\* the .jpg images that have their .txt label
JpgPairs == {file \in Pairs : file.ext = ".jpg"}

\* C3 as amended: the same, for the N .jpg images that have a .txt label, after
\* the first call on a root, when floor(N * train_ratio) + floor(N * val_ratio)
\* is at most N.
C3_SplitCountsFirstRun ==
    LET n == Cardinality(JpgPairs)
    IN  (Returned /\ run = 1 /\ Floor(train_ratio, n) + Floor(val_ratio, n) <= n)
            => Counted(n) /\ Partitioned(JpgPairs)

\* a first call has put pairs into each of the three folders
C3_Witness ==
    /\ Returned
    /\ run = 1
    /\ PairsIn(train_folder) # {}
    /\ PairsIn(val_folder) # {}
    /\ PairsIn(test_folder) # {}

----------------------------------------------------------------------------
(* Properties of draw_boxes, checked under DrawSpec *)

\* the line "0 0.5 0.5 0.2 0.2"
SampleLine == <<Num(0, 1), Num(1, 2), Num(1, 2), Num(1, 5), Num(1, 5)>>

\* the rectangle is centred at (int(x*W), int(y*H)) of its line
Centred(r) ==
    /\ r.p1[1] + r.p2[1] = 2 * Pixel(lines[r.line][2], image.size[1])
    /\ r.p1[2] + r.p2[2] = 2 * Pixel(lines[r.line][3], image.size[2])

\* r is the rectangle of the sample line on a 100 x 100 image
OfSample(r) == lines[r.line] = SampleLine /\ image.size = <<100, 100>>

\* a and b differ by at most 1
WithinOne(a, b) == a - b <= 1 /\ b - a <= 1

\* C12: the rectangle of a line (x, y, w, h) on a W x H image is centred at
\* (int(x*W), int(y*H)); that of the line 0 0.5 0.5 0.2 0.2 on a 100 x 100
\* image is centred at (50, 50) and spans 40 x 40 pixels, to one pixel.
C12_SampleBoxSpans40 ==
    \A k \in 1..Len(image.rects) :
        LET r == image.rects[k]
        IN  /\ Centred(r)
            /\ OfSample(r) =>
                  /\ r.p1[1] + r.p2[1] = 100 /\ r.p1[2] + r.p2[2] = 100
                  /\ WithinOne(r.p2[1] - r.p1[1], 40)
                  /\ WithinOne(r.p2[2] - r.p1[2], 40)

\* C12 as amended: the same centre; the rectangle reaches int(w*W) // 2 pixels
\* to the left and right of it and int(h*H) // 2 above and below, so that of
\* the line 0 0.5 0.5 0.2 0.2 on a 100 x 100 image spans 20 x 20 pixels.
C12_SampleBoxSpans20 ==
    \A k \in 1..Len(image.rects) :
        LET r == image.rects[k]
        IN  /\ Centred(r)
            /\ r.p2[1] - r.p1[1] = 2 * (Pixel(lines[r.line][4], image.size[1]) \div 2)
            /\ r.p2[2] - r.p1[2] = 2 * (Pixel(lines[r.line][5], image.size[2]) \div 2)
            /\ OfSample(r) =>
                  /\ r.p1 = <<40, 40>>
                  /\ r.p2 = <<60, 60>>

\* the rectangle of the sample line has been drawn on a 100 x 100 image and
\* written to the output file
C12_Witness ==
    /\ dpc = "done"
    /\ output_path # <<>>
    /\ \E k \in 1..Len(image.rects) : OfSample(image.rects[k])

\* five fields, each a number
WellFormed(line) ==
    Len(line) = 5 /\ \A k \in 1..5 : line[k].kind = "num"

\* the image cannot be read or the label file cannot be opened
FileError == image_path = <<>> \/ ~label_path.exists

\* the lines of the label file that are not well-formed
Malformed == {n \in 1..Len(lines) : ~WellFormed(lines[n])}

----------------------------------------------------------------------------
(* Properties of generate_random_rotation_matrix, checked under RotSpec *)

\* the angle lies in [-pi/4, pi/4]: its cosine is at least the size of its sine
InQuarter(a) == a.c * a.c + a.s * a.s = a.d * a.d /\ a.s <= a.c /\ -a.s <= a.c

\* the angle is one of [0, 2 pi): any point of the unit circle
InCircle(a) == a.c * a.c + a.s * a.s = a.d * a.d /\ a.d > 0

\* the product of the 3 x 3 block of M with its transpose
Gram(M) ==
    [r \in 1..3 |-> [k \in 1..3 |->
        M[r][1] * M[k][1] + M[r][2] * M[k][2] + M[r][3] * M[k][3]]]

\* the determinant of the 3 x 3 block of M
Det3(M) ==
      M[1][1] * (M[2][2] * M[3][3] - M[2][3] * M[3][2])
    - M[1][2] * (M[2][1] * M[3][3] - M[2][3] * M[3][1])
    + M[1][3] * (M[2][1] * M[3][2] - M[2][2] * M[3][1])

\* C14: the matrix returned is a rotation: with the x and y angles in
\* [-pi/4, pi/4] and the z angle in [0, 2 pi), its 3 x 3 block is orthogonal
\* with determinant 1 and is the x rotation followed by the y rotation
\* followed by the z rotation, and its fourth row and column are (0, 0, 0, 1).
C14_ValidRotation ==
    rpc = "done" =>
        LET M == final_rotation_matrix.m
            D == final_rotation_matrix.scale
        IN  /\ InQuarter(angle_x) /\ InQuarter(angle_y) /\ InCircle(angle_z)
            /\ D = angle_x.d * angle_y.d * angle_z.d
            /\ Gram(M) = [r \in 1..3 |-> [k \in 1..3 |-> IF r = k THEN D * D ELSE 0]]
            /\ Det3(M) = D * D * D
            \* the x axis: kept by the x rotation, then turned by y, then by z
            /\ <<M[1][1], M[2][1], M[3][1]>> =
                  << angle_z.c * angle_y.c * angle_x.d,
                     angle_z.s * angle_y.c * angle_x.d,
                     -(angle_z.d * angle_y.s * angle_x.d) >>
            \* the third coordinate: fixed last by y and x, kept by z
            /\ <<M[3][1], M[3][2], M[3][3]>> =
                  << -(angle_z.d * angle_y.s * angle_x.d),
                     angle_z.d * angle_y.c * angle_x.s,
                     angle_z.d * angle_y.c * angle_x.c >>
            /\ \A k \in 1..3 : M[4][k] = 0 /\ M[k][4] = 0
            /\ M[4][4] = D

\* a matrix has been returned for three angles none of which is a multiple of
\* a right angle, the x and y angles of opposite sign
C14_Witness ==
    /\ rpc = "done"
    /\ angle_x.s > 0
    /\ angle_y.s < 0
    /\ angle_z.s < 0 /\ angle_z.c < 0
    /\ final_rotation_matrix.m[1][2] # 0

====
